---- MODULE Spec2Model ----
(***************************************************************************)
(* Model of the word-guessing game server in src/api/index.py: the single  *)
(* process-wide GAME dictionary and the three handlers that mutate it      *)
(* (/start, /next, /guess).                                                *)
(*                                                                         *)
(* Strings that the code transforms (the guess text, the secret word) are  *)
(* sequences of one-character strings, so that strip() and lower() are     *)
(* computed rather than assumed. A hint prompt is represented by its       *)
(* position in the word's list in WORDS (the prompts of one word are       *)
(* pairwise different strings, so position and string determine each       *)
(* other).                                                                 *)
(***************************************************************************)
EXTENDS Integers, Sequences, FiniteSets, TLC

(* ------------------------------ bounds -------------------------------- *)

\* number of WORDS entries in the modelled catalog
NumWords == 2
\* guesses the environment makes in one round
MaxGuesses == 2
\* wins the environment records in one session
MaxHistory == 3
\* clue turns per round in the session-level specification
MaxClue == 2
\* callers whose requests overlap
NumCallers == 2

(* ------------------------------ GAME DATA ----------------------------- *)

Camera == <<"C", "a", "m", "e", "r", "a">>
Clock == <<"C", "l", "o", "c", "k">>
Moth == <<"M", "o", "t", "h">>
Mirror == <<"M", "i", "r", "r", "o", "r">>

\* the entries of WORDS the model draws its catalog from, with the number of
\* hint prompts each has
WORDS == <<[name |-> Camera, nhints |-> 3],
           [name |-> Clock, nhints |-> 3],
           [name |-> Mirror, nhints |-> 3],
           [name |-> Moth, nhints |-> 5]>>

\* WORDS.keys()
Keys == {WORDS[i].name : i \in 1..NumWords}

\* the position of w in WORDS.keys()
KeyIndex(w) == CHOOSE i \in 1..Len(WORDS) : WORDS[i].name = w

\* len(WORDS[w])
NumHints(w) == WORDS[KeyIndex(w)].nhints

\* GAME["word"] before the first /start
None == <<>>

EASY_PROMPT == "EASY_PROMPT"
MEDIUM_PROMPT == "MEDIUM_PROMPT"
HARD_PROMPT == "HARD_PROMPT"

\* the template chosen by the tier of the clue number
prompt_for_question_by_clue(n, lvl) ==
    IF n <= 4 THEN EASY_PROMPT
    ELSE IF n <= 8 THEN MEDIUM_PROMPT
    ELSE HARD_PROMPT

\* the template of the first level, whatever the level
prompt_for_question_first_level(n, lvl) == EASY_PROMPT

prompt_for_question(n, lvl) ==
    IF lvl = 1 THEN EASY_PROMPT
    ELSE IF lvl = 2 THEN MEDIUM_PROMPT
    ELSE HARD_PROMPT

(* ------------------------------ strings ------------------------------- *)

UpperCase == <<"A", "B", "C", "D", "E", "F", "G", "H", "I", "J", "K", "L", "M",
               "N", "O", "P", "Q", "R", "S", "T", "U", "V", "W", "X", "Y", "Z">>
LowerCase == <<"a", "b", "c", "d", "e", "f", "g", "h", "i", "j", "k", "l", "m",
               "n", "o", "p", "q", "r", "s", "t", "u", "v", "w", "x", "y", "z">>
Whitespace == {" ", "\t", "\n"}

LowerChar(c) ==
    IF \E i \in 1..26 : UpperCase[i] = c
    THEN LowerCase[CHOOSE i \in 1..26 : UpperCase[i] = c]
    ELSE c

UpperChar(c) ==
    IF \E i \in 1..26 : LowerCase[i] = c
    THEN UpperCase[CHOOSE i \in 1..26 : LowerCase[i] = c]
    ELSE c

\* str.lower()
lower(s) == [i \in 1..Len(s) |-> LowerChar(s[i])]

\* str.upper(), used only to build guess texts
upper(s) == [i \in 1..Len(s) |-> UpperChar(s[i])]

RECURSIVE lstrip(_)
lstrip(s) ==
    IF s # <<>> /\ Head(s) \in Whitespace THEN lstrip(Tail(s)) ELSE s

RECURSIVE rstrip(_)
rstrip(s) ==
    IF s # <<>> /\ s[Len(s)] \in Whitespace
    THEN rstrip(SubSeq(s, 1, Len(s) - 1))
    ELSE s

\* str.strip()
strip(s) == rstrip(lstrip(s))

(* --------------------------- text generator --------------------------- *)

ErrorText == "ERROR: Groq API Key not configured."
ModelText == "generated clue"

\* call_model: the sentinel when no client is configured, otherwise the
\* reply of the external generator (an opaque string)
call_model(cl, msgs) == IF ~cl THEN ErrorText ELSE ModelText

(* ------------------------------ messages ------------------------------ *)

Message(role, kind, prompt, w, hint, text) ==
    [role |-> role, kind |-> kind, prompt |-> prompt, word |-> w,
     hint |-> hint, text |-> text]

\* {"role": "system", "content": system_prompt}
SystemMessage(p) == Message("system", "prompt", p, None, 0, "")
\* {"role": "user", "content": f"Word: {word}"}
WordMessage(w) == Message("user", "word", "", w, 0, "")
\* {"role": "user", "content": f"Answer this hint indirectly: {hint_prompt}"}
HintMessage(w, h) == Message("user", "hint", "", w, h, "")
\* {"role": "user", "content": "Give another indirect clue. ..."}
AnotherMessage == Message("user", "another", "", None, 0, "")
\* {"role": "assistant", "content": clue}
AssistantMessage(t) == Message("assistant", "reply", "", None, 0, t)

(* ------------------------------- sampling ----------------------------- *)

\* the outcomes of random.randint(2, 3)
RandInt == 2..3

Min(a, b) == IF a < b THEN a ELSE b

\* sampling with replacement, as random.choices would do
IsSample_with_replacement(s, n, k) ==
    /\ Len(s) = k
    /\ \A i \in 1..k : s[i] \in 1..n

\* s is an outcome of random.sample(population of n prompts, k): k different
\* positions of the population, in any order
IsSample(s, n, k) ==
    /\ Len(s) = k
    /\ \A i \in 1..k : s[i] \in 1..n
    /\ \A i, j \in 1..k : i # j => s[i] # s[j]

\* the outcomes of random.sample(population of n prompts, k)
Sample(n, k) == {s \in [1..k -> 1..n] : IsSample(s, n, k)}


(* ------------------------------ GAME STATE ---------------------------- *)

VARIABLES
    word, hints, hint_index, question_index, messages, finished,
    used_words, level, session_history, current_guesses, current_hints,
    client,     \* whether the Groq client was configured at import time
    result,     \* what the last handler call returned (or the fault it raised)
    starts,     \* starts since the session began (Init or the last reset)
    calls,      \* per caller, the handler it is in the middle of, or "idle"
    running     \* the caller whose handler holds the event loop, or 0

vars == <<word, hints, hint_index, question_index, messages, finished,
          used_words, level, session_history, current_guesses, current_hints,
          client, result, starts, calls, running>>

Callers == 1..NumCallers

\* the counter of starts saturates once it is past the refill
StartsCap == NumWords + 2

Init ==
    /\ word = None
    /\ hints = <<>>
    /\ hint_index = 0
    /\ question_index = 0
    /\ messages = <<>>
    /\ finished = FALSE
    /\ used_words = {}
    /\ level = 1
    /\ session_history = <<>>
    /\ current_guesses = 0
    /\ current_hints = 0
    /\ client \in BOOLEAN
    /\ result = [op |-> "none", kind |-> "none"]
    /\ starts = 0
    /\ calls = [c \in Callers |-> "idle"]
    /\ running = 0

(* -------------------------------- /start ------------------------------ *)

\* ["easy", "medium", "hard"][GAME["level"]-1]
LevelLabel(lvl) == <<"easy", "medium", "hard">>[lvl]

\* the used words are forgotten at every start
used_before_choice_cleared(session_reset) == {}

\* GAME["used_words"] once the reset flag and the refill have been applied
used_before_choice(session_reset) ==
    LET used1 == IF session_reset THEN {} ELSE used_words
    IN IF \A w \in Keys : w \in used1 THEN {} ELSE used1

\* the used words are not filtered out
available_words_unfiltered(session_reset) == Keys

\* available_words at the call of random.choice
available_words(session_reset) ==
    {w \in Keys : w \notin used_before_choice(session_reset)}

\* the handler, given what random.choice and random.sample return
start_game_with(session_reset, w, selected_hints) ==
    LET level1 == IF session_reset THEN 1 ELSE level
        history1 == IF session_reset THEN <<>> ELSE session_history
        msgs == <<SystemMessage(prompt_for_question(1, level1)),
                  WordMessage(w)>>
        clue == call_model(client, msgs)
    IN /\ w \in available_words(session_reset)
       /\ \E k \in RandInt :
             IsSample(selected_hints, NumHints(w), Min(NumHints(w), k))
       /\ level' = level1
       /\ session_history' = history1
       /\ used_words' = used_before_choice(session_reset) \cup {w}
       /\ word' = w
       /\ hints' = selected_hints
       /\ hint_index' = 0
       /\ question_index' = 1
       /\ finished' = FALSE
       /\ current_guesses' = 0
       /\ current_hints' = 1
       /\ messages' = Append(msgs, AssistantMessage(clue))
       /\ result' = [op |-> "start", kind |-> "clue", question |-> 1,
                     difficulty |-> LevelLabel(level1),
                     level |-> level1, text |-> clue]
       /\ starts' = IF session_reset THEN 1 ELSE Min(starts + 1, StartsCap)
       /\ UNCHANGED client

start_game(session_reset) ==
    \E w \in Keys, k \in RandInt :
       \E selected_hints \in Sample(NumHints(w), Min(NumHints(w), k)) :
          start_game_with(session_reset, w, selected_hints)

(* --------------------------------- /next ------------------------------ *)

\* the tiers shifted by one clue
ClueLabel_shifted(q) ==
    IF q <= 5 THEN "easy" ELSE IF q <= 9 THEN "medium" ELSE "hard"

\* the label computed from question_index at the end of next_hint
ClueLabel(q) == IF q <= 4 THEN "easy" ELSE IF q <= 8 THEN "medium" ELSE "hard"

\* one clue too many
no_more_hints_late(q) == q > 11

\* one clue too few
no_more_hints_early(q) == q > 9

\* if GAME["question_index"] > 10
no_more_hints(q) == q > 10

\* the last selected hint is never reached
hint_available_short(idx, hs) == idx + 1 < Len(hs)

\* if GAME["hint_index"] < len(GAME["hints"])
hint_available(idx, hs) == idx < Len(hs)

next_hint ==
    IF finished
    THEN /\ result' = [op |-> "next", kind |-> "game_over",
                       error |-> "Game over", status_code |-> 400]
         /\ UNCHANGED <<word, hints, hint_index, question_index, messages,
                        finished, used_words, level, session_history,
                        current_guesses, current_hints, client, starts>>
    ELSE
      /\ question_index' = question_index + 1
      /\ current_hints' = current_hints + 1
      /\ IF no_more_hints(question_index + 1)
         THEN /\ finished' = TRUE
              /\ result' = [op |-> "next", kind |-> "no_more",
                            message |-> "No more hints", finished |-> TRUE]
              /\ UNCHANGED <<messages, hint_index>>
         ELSE IF messages = <<>>
         THEN \* GAME["messages"][0] = ... on an empty list: IndexError
              /\ result' = [op |-> "next", kind |-> "fault",
                            error |-> "IndexError"]
              /\ UNCHANGED <<finished, messages, hint_index>>
         ELSE LET system_prompt ==
                      prompt_for_question(question_index + 1, level)
                  msgs0 == [messages EXCEPT ![1] = SystemMessage(system_prompt)]
                  within == hint_available(hint_index, hints)
                  user_msg == IF within
                              THEN HintMessage(word, hints[hint_index + 1])
                              ELSE AnotherMessage
                  msgs1 == Append(msgs0, user_msg)
                  reply == call_model(client, msgs1)
              IN /\ hint_index' = IF within THEN hint_index + 1 ELSE hint_index
                 /\ messages' = Append(msgs1, AssistantMessage(reply))
                 /\ result' = [op |-> "next", kind |-> "clue",
                               question |-> question_index + 1,
                               difficulty |-> ClueLabel(question_index + 1),
                               text |-> reply]
                 /\ UNCHANGED finished
      /\ UNCHANGED <<word, hints, used_words, level, session_history,
                     current_guesses, client, starts>>

(* -------------------------------- /guess ------------------------------ *)

\* base_scores.get(GAME["level"], 100)
base_scores(lvl) ==
    IF lvl = 1 THEN 50 ELSE IF lvl = 2 THEN 75 ELSE IF lvl = 3 THEN 100 ELSE 100

\* the penalties of the commented-out lines applied
final_score_penalised(lvl, guesses, nhints) ==
    LET penalised == base_scores(lvl) - (nhints - 1) * 5 - (guesses - 1) * 2
    IN IF penalised > 10 THEN penalised ELSE 10

\* final_score = base: the penalties for hints and guesses are commented out
final_score(lvl, guesses, nhints) == base_scores(lvl)

\* the session completes one level early
is_session_complete_early(lvl) == lvl >= 2

\* is_session_complete = GAME["level"] >= 3
is_session_complete(lvl) == lvl >= 3

\* the level is raised without the cap
level_after_win_uncapped(lvl) == lvl + 1

\* the level falls back to 1 when the session completes
level_after_win_wrapping(lvl) == IF ~is_session_complete(lvl) THEN lvl + 1 ELSE 1

\* if not is_session_complete: GAME["level"] += 1
level_after_win(lvl) == IF ~is_session_complete(lvl) THEN lvl + 1 ELSE lvl

\* ["Easy", "Medium", "Hard"][GAME["level"]-1]
StatsLabel(lvl) == <<"Easy", "Medium", "Hard">>[lvl]

\* the guess only has to begin with the answer
matches_prefix(text, w) ==
    /\ Len(strip(lower(text))) >= Len(w)
    /\ SubSeq(strip(lower(text)), 1, Len(w)) = lower(w)

\* user_guess == answer
matches(text, w) == strip(lower(text)) = lower(w)

guess(text) ==
    IF word = None
    THEN /\ result' = [op |-> "guess", kind |-> "not_started",
                       correct |-> FALSE]
         /\ UNCHANGED <<word, hints, hint_index, question_index, messages,
                        finished, used_words, level, session_history,
                        current_guesses, current_hints, client, starts>>
    ELSE
      /\ current_guesses' = current_guesses + 1
      /\ IF matches(text, word)
         THEN LET stats == [level |-> level,
                            difficulty |-> StatsLabel(level),
                            word |-> word,
                            guesses |-> current_guesses + 1,
                            hints |-> current_hints,
                            score |-> final_score(level, current_guesses + 1,
                                                  current_hints)]
              IN /\ finished' = TRUE
                 /\ session_history' = Append(session_history, stats)
                 /\ level' = level_after_win(level)
                 /\ result' = [op |-> "guess", kind |-> "correct",
                               correct |-> TRUE, stats |-> stats,
                               session_complete |-> is_session_complete(level)]
         ELSE /\ result' = [op |-> "guess", kind |-> "wrong",
                            correct |-> FALSE]
              /\ UNCHANGED <<finished, session_history, level>>
      /\ UNCHANGED <<word, hints, hint_index, question_index, messages,
                     used_words, current_hints, client, starts>>

(* ----------------------------- environment ---------------------------- *)

\* the guess texts a caller sends: for each catalog word the word itself,
\* the word in upper case padded with blanks, and the word with a letter
\* appended
GuessTexts ==
    UNION {{w, <<" ", " ">> \o upper(w) \o <<" ">>, w \o <<"y">>} : w \in Keys}

\* a caller makes at most MaxGuesses guesses per round and records at most
\* MaxHistory wins per session
Guess ==
    \E text \in GuessTexts :
       /\ current_guesses < MaxGuesses
       /\ (word # None /\ matches(text, word))
             => Len(session_history) < MaxHistory
       /\ guess(text)
       /\ UNCHANGED <<calls, running>>

NextHint == next_hint /\ UNCHANGED <<calls, running>>

\* rounds of one session: after a win the next start is a reset start
StartRound ==
    \E session_reset \in BOOLEAN :
       /\ session_history # <<>> => session_reset
       /\ start_game(session_reset)
       /\ UNCHANGED <<calls, running>>

Next == StartRound \/ NextHint \/ Guess

Spec == Init /\ [][Next]_vars

\* sessions of short rounds: any start, at most MaxClue clue turns per round;
\* no API key is configured, random.choice returns the first available word
\* and random.sample the first prompts of the word, in catalog order
InitSession == Init /\ ~client

StartAny ==
    \E session_reset \in BOOLEAN, w \in Keys, k \in RandInt :
       /\ \A v \in available_words(session_reset) : KeyIndex(w) <= KeyIndex(v)
       /\ start_game_with(session_reset, w, [i \in 1..k |-> i])
       /\ UNCHANGED <<calls, running>>

NextHintShort ==
    question_index < MaxClue /\ next_hint /\ UNCHANGED <<calls, running>>

NextSession == StartAny \/ NextHintShort \/ Guess

SpecSession == InitSession /\ [][NextSession]_vars

\* sessions of full rounds: as SpecSession, but every round can run through
\* all its clues, and a round is won, if at all, by the first guess on the
\* first clue
GuessAtOnce ==
    \E text \in GuessTexts :
       /\ current_guesses < MaxGuesses
       /\ (word # None /\ matches(text, word))
             => /\ Len(session_history) < MaxHistory
                /\ question_index = 1
                /\ current_guesses = 0
       /\ guess(text)
       /\ UNCHANGED <<calls, running>>

NextTone == StartAny \/ NextHint \/ GuessAtOnce

SpecTone == InitSession /\ [][NextTone]_vars

(* --------------------------- overlapping calls ------------------------ *)

\* The handlers are coroutines (async def) of one event loop. A coroutine
\* keeps the loop until it returns or reaches an await. /start and /next are
\* split here at their call of call_model, the one place where they wait for
\* something outside the process.

\* the handler would give up the event loop during the generator call
awaits_call_model_yielding(op) == TRUE

\* clue = call_model(GAME["messages"]): a plain call of a synchronous
\* function, there is no await in the handlers
awaits_call_model(op) == FALSE

\* a handler of caller c can take its next step
may_run(c) == running \in {0, c}

\* who holds the event loop while the generator call of c is in flight
holder_during_call(c, op) == IF awaits_call_model(op) THEN 0 ELSE c

\* /start up to the generator call
begin_start(c, session_reset, w, selected_hints) ==
    LET level1 == IF session_reset THEN 1 ELSE level
    IN /\ calls[c] = "idle"
       /\ may_run(c)
       /\ w \in available_words(session_reset)
       /\ \E k \in RandInt :
             IsSample(selected_hints, NumHints(w), Min(NumHints(w), k))
       /\ level' = level1
       /\ session_history' = IF session_reset THEN <<>> ELSE session_history
       /\ used_words' = used_before_choice(session_reset) \cup {w}
       /\ word' = w
       /\ hints' = selected_hints
       /\ hint_index' = 0
       /\ question_index' = 1
       /\ finished' = FALSE
       /\ current_guesses' = 0
       /\ current_hints' = 1
       /\ messages' = <<SystemMessage(prompt_for_question(1, level1)),
                        WordMessage(w)>>
       /\ starts' = IF session_reset THEN 1 ELSE Min(starts + 1, StartsCap)
       /\ calls' = [calls EXCEPT ![c] = "start"]
       /\ running' = holder_during_call(c, "start")
       /\ UNCHANGED <<client, result>>

\* /start from the reply of the generator to the return
end_start(c) ==
    LET clue == call_model(client, messages)
    IN /\ calls[c] = "start"
       /\ may_run(c)
       /\ messages' = Append(messages, AssistantMessage(clue))
       /\ result' = [op |-> "start", kind |-> "clue", question |-> 1,
                     difficulty |-> LevelLabel(level),
                     level |-> level, text |-> clue]
       /\ calls' = [calls EXCEPT ![c] = "idle"]
       /\ running' = 0
       /\ UNCHANGED <<word, hints, hint_index, question_index, finished,
                      used_words, level, session_history, current_guesses,
                      current_hints, client, starts>>

\* /next up to the generator call, or to its return when it makes none
begin_next(c) ==
    /\ calls[c] = "idle"
    /\ may_run(c)
    /\ IF finished \/ no_more_hints(question_index + 1) \/ messages = <<>>
       THEN next_hint /\ running' = 0 /\ UNCHANGED calls
       ELSE LET system_prompt ==
                    prompt_for_question(question_index + 1, level)
                msgs0 == [messages EXCEPT ![1] = SystemMessage(system_prompt)]
                within == hint_available(hint_index, hints)
                user_msg == IF within
                            THEN HintMessage(word, hints[hint_index + 1])
                            ELSE AnotherMessage
            IN /\ question_index' = question_index + 1
               /\ current_hints' = current_hints + 1
               /\ hint_index' = IF within THEN hint_index + 1 ELSE hint_index
               /\ messages' = Append(msgs0, user_msg)
               /\ calls' = [calls EXCEPT ![c] = "next"]
               /\ running' = holder_during_call(c, "next")
               /\ UNCHANGED <<word, hints, finished, used_words, level,
                              session_history, current_guesses, client,
                              result, starts>>

\* /next from the reply of the generator to the return
end_next(c) ==
    LET reply == call_model(client, messages)
    IN /\ calls[c] = "next"
       /\ may_run(c)
       /\ messages' = Append(messages, AssistantMessage(reply))
       /\ result' = [op |-> "next", kind |-> "clue",
                     question |-> question_index,
                     difficulty |-> ClueLabel(question_index),
                     text |-> reply]
       /\ calls' = [calls EXCEPT ![c] = "idle"]
       /\ running' = 0
       /\ UNCHANGED <<word, hints, hint_index, question_index, finished,
                      used_words, level, session_history, current_guesses,
                      current_hints, client, starts>>

\* /guess makes no generator call
guess_by(c, text) ==
    /\ calls[c] = "idle"
    /\ may_run(c)
    /\ guess(text)
    /\ running' = 0
    /\ UNCHANGED calls

\* GET /state
get_state(c) ==
    /\ calls[c] = "idle"
    /\ may_run(c)
    /\ result' = [op |-> "state", kind |-> "state",
                  question |-> question_index, finished |-> finished]
    /\ running' = 0
    /\ UNCHANGED <<word, hints, hint_index, question_index, messages,
                   finished, used_words, level, session_history,
                   current_guesses, current_hints, client, starts, calls>>

\* callers of one session with a configured generator; short rounds, the
\* first available word and the first prompts in catalog order, a reset
\* start after a win
InitOverlap == Init /\ client

BeginStart ==
    \E c \in Callers, session_reset \in BOOLEAN, w \in Keys, k \in RandInt :
       /\ session_history # <<>> => session_reset
       /\ \A v \in available_words(session_reset) : KeyIndex(w) <= KeyIndex(v)
       /\ begin_start(c, session_reset, w, [i \in 1..k |-> i])

EndStart == \E c \in Callers : end_start(c)

BeginNext == \E c \in Callers : question_index < MaxClue /\ begin_next(c)

EndNext == \E c \in Callers : end_next(c)

GuessBy ==
    \E c \in Callers, text \in GuessTexts :
       /\ current_guesses < MaxGuesses
       /\ (word # None /\ matches(text, word))
             => Len(session_history) < MaxHistory
       /\ guess_by(c, text)

GetState == \E c \in Callers : get_state(c)

NextOverlap ==
    BeginStart \/ EndStart \/ BeginNext \/ EndNext \/ GuessBy \/ GetState

SpecOverlap == InitOverlap /\ [][NextOverlap]_vars

(* ------------------------------ properties ---------------------------- *)

\* the step was made by the named handler
ByNext == result'.op = "next"
ByGuess == result'.op = "guess"
ByStart == result'.op = "start"

\* the step is a call of /start with this reset flag
StartStep(session_reset) ==
    ByStart /\ start_game_with(session_reset, word', hints')

\* everything but the value returned to the caller
game == <<word, hints, hint_index, question_index, messages, finished,
          used_words, level, session_history, current_guesses, current_hints>>

\* C1: once finished is true, no /next or /guess call changes question_index
\* or current_guesses; only the next /start does.
C1_FinishedIsTerminal ==
    [][(finished /\ (ByNext \/ ByGuess))
          => /\ question_index' = question_index
             /\ current_guesses' = current_guesses]_vars

\* C2: /next and /guess against a finished round or before the first /start
\* return a structured result, never a fault, and leave the game state as it
\* was.
C2_InvalidOperationIsNoOp ==
    [][((finished \/ word = None) /\ (ByNext \/ ByGuess))
          => /\ result'.kind # "fault"
             /\ UNCHANGED game]_vars

\* C3: level is always in 1..3 and starts at 1; a correct guess adds one to it
\* unless it is 3 already, a start with the reset flag sets it to 1, and
\* /next, an incorrect guess and a start without the flag leave it alone.
C3_LevelRange ==
    /\ level = 1
    /\ [][/\ level' \in 1..3
          /\ (ByGuess /\ result'.kind = "correct")
                => level' = (IF level < 3 THEN level + 1 ELSE 3)
          /\ (ByGuess /\ result'.kind # "correct") => level' = level
          /\ ByNext => level' = level
          /\ StartStep(TRUE) => level' = 1
          /\ StartStep(FALSE) => level' = level]_vars

C3_Witness ==
    /\ level = 3
    /\ result.op = "guess"
    /\ result.kind = "correct"
    /\ result.stats.level = 2

\* C4: the i-th win of a session is played at level min(i, 3), so three wins
\* take the level 1 -> 2 -> 3; a win reports session_complete exactly when it
\* was played at level 3, and the level then stays 3; a start with the reset
\* flag returns level 1 and leaves the history empty.
C4_SessionProgression ==
    /\ level = 1 /\ session_history = <<>>
    /\ [][/\ \A i \in 1..Len(session_history') :
                session_history'[i].level = (IF i < 3 THEN i ELSE 3)
          /\ level' = (IF Len(session_history') < 2
                       THEN Len(session_history') + 1 ELSE 3)
          /\ (ByGuess /\ result'.kind = "correct")
                => /\ result'.session_complete = (level = 3)
                   /\ result'.session_complete => level' = 3
          /\ StartStep(TRUE)
                => /\ result'.level = 1
                   /\ level' = 1
                   /\ session_history' = <<>>]_vars

\* three rounds won one after the other, the third one at level 3
C4_Witness ==
    /\ Len(session_history) = 3
    /\ session_history[1].word # session_history[2].word
    /\ session_history[2].word # session_history[3].word
    /\ result.op = "guess"
    /\ result.kind = "correct"
    /\ result.session_complete
    /\ level = 3

ScoreOfLevel(lvl) == CASE lvl = 1 -> 50 [] lvl = 2 -> 75 [] lvl = 3 -> 100

\* C5: a correct guess appends exactly one record, which carries the level
\* the round was played at and the score of that level (50, 75, 100),
\* whatever the numbers of guesses and hints.
C5_Scoring ==
    [][(ByGuess /\ result'.kind = "correct")
          => LET rec == session_history'[Len(session_history')]
             IN /\ session_history' = Append(session_history, rec)
                /\ rec.level = level
                /\ rec.guesses = current_guesses + 1
                /\ rec.hints = question_index
                /\ rec.score = ScoreOfLevel(level)]_vars

\* a round won at level 3 on the second guess after a second clue
C5_Witness ==
    /\ result.op = "guess"
    /\ result.kind = "correct"
    /\ result.stats.level = 3
    /\ result.stats.guesses > 1
    /\ result.stats.hints > 1
    /\ result.stats.score = 100

Generated == Cardinality({i \in 1..Len(messages) :
                             messages[i].role = "assistant"})

LabelOfClue(q) ==
    CASE q \in 1..4 -> "easy" [] q \in 5..8 -> "medium" [] q \in 9..10 -> "hard"

\* C8: /start returns clue 1; each of the next nine /next calls returns the
\* next clue, labelled easy up to clue 4, medium up to clue 8 and hard for
\* clues 9 and 10; the /next call after clue 10 returns finished = true and
\* generates no text.
C8_ClueSequence ==
    [][/\ ByStart
          => /\ result'.question = 1
             /\ question_index' = 1
             /\ Generated' = 1
             /\ result'.text = messages'[Len(messages')].text
       /\ (ByNext /\ word # None /\ ~finished /\ question_index < 10)
          => /\ result'.kind = "clue"
             /\ question_index' = question_index + 1
             /\ result'.question = question_index'
             /\ result'.difficulty = LabelOfClue(question_index')
             /\ Generated' = Generated + 1
             /\ result'.text = messages'[Len(messages')].text
       /\ (ByNext /\ word # None /\ ~finished /\ question_index = 10)
          => /\ result'.kind = "no_more"
             /\ result'.finished
             /\ finished'
             /\ messages' = messages
             /\ Generated' = 10]_vars

\* a round started at level 1 whose ten clues have been used up
C8_Witness ==
    /\ word # None
    /\ level = 1
    /\ result.op = "next"
    /\ result.kind = "no_more"
    /\ Generated = 10

\* C9: question_index never exceeds 11, is 1 right after every /start, grows
\* by at most one in any other step, and is 11 only when finished is true.
C9_ClueCountBound ==
    /\ question_index = 0
    /\ [][/\ question_index' <= 11
          /\ question_index' = 11 => finished'
          /\ ByStart => question_index' = 1
          /\ ~ByStart => question_index' \in {question_index,
                                             question_index + 1}]_vars

C9_Witness ==
    /\ word # None
    /\ question_index = 11
    /\ finished

\* s is a prefix of t
IsPrefix(s, t) == Len(s) <= Len(t) /\ s = SubSeq(t, 1, Len(s))

\* C10: a start with the reset flag leaves level 1, an empty history and only
\* the word it chose in used_words; every other step keeps the level from
\* falling and the history from losing a record.
C10_ResetOnlyOnRequest ==
    [][/\ StartStep(TRUE)
          => /\ level' = 1
             /\ session_history' = <<>>
             /\ used_words' = {word'}
       /\ ~StartStep(TRUE)
          => /\ level' >= level
             /\ IsPrefix(session_history, session_history')]_vars

\* the session has been completed by a win at level 3 and nothing was reset
C10_Witness ==
    /\ result.op = "guess"
    /\ result.kind = "correct"
    /\ result.session_complete
    /\ level = 3
    /\ Len(session_history) >= 3

PromptOfLevel(lvl) ==
    CASE lvl = 1 -> EASY_PROMPT [] lvl = 2 -> MEDIUM_PROMPT
      [] lvl = 3 -> HARD_PROMPT

\* C12: the system instruction at the head of the log, at /start and after
\* every /next that produces a clue, is the template of the session level,
\* whatever the clue number; the label /next returns is the tier of the clue
\* number, whatever the level.
C12_DualDifficulty ==
    [][/\ ByStart
          => \A lvl \in 1..3 :
                level' = lvl
                   => /\ messages'[1] = SystemMessage(PromptOfLevel(lvl))
                      /\ result'.difficulty = LevelLabel(lvl)
       /\ (ByNext /\ result'.kind = "clue")
          => /\ \A lvl \in 1..3 :
                   level = lvl
                      => messages'[1] = SystemMessage(PromptOfLevel(lvl))
             /\ \A q \in 1..10 :
                   question_index' = q
                      => result'.difficulty = LabelOfClue(q)]_vars

\* a clue of a level 3 round that is labelled easy
C12_Witness ==
    /\ level = 3
    /\ result.op = "next"
    /\ result.kind = "clue"
    /\ result.difficulty = "easy"
    /\ messages[1].prompt = HARD_PROMPT

PromptOfClue(q) ==
    CASE q \in 1..4 -> EASY_PROMPT [] q \in 5..8 -> MEDIUM_PROMPT
      [] q \in 9..10 -> HARD_PROMPT

\* C16 as stated: every /next that produces a clue replaces the first log
\* entry by the template of the tier of the new clue number.
C16_PromptFollowsClueCount ==
    [][(ByNext /\ result'.kind = "clue")
          => messages'[1] = SystemMessage(PromptOfClue(question_index'))]_vars

\* C16 amended: every /next that produces a clue replaces the first log entry
\* by the template of the session level, and leaves the rest of the log as a
\* prefix of the new log.
C16_PromptFollowsLevel ==
    [][(ByNext /\ result'.kind = "clue")
          => /\ messages'[1] = SystemMessage(PromptOfLevel(level))
             /\ Len(messages') = Len(messages) + 2
             /\ \A i \in 2..Len(messages) : messages'[i] = messages[i]]_vars

\* the ninth clue of a level 2 round: medium template, hard label
C16_Witness ==
    /\ level = 2
    /\ result.op = "next"
    /\ result.kind = "clue"
    /\ result.question = 9
    /\ messages[1].prompt = MEDIUM_PROMPT

\* C13: /guess before the first /start returns the not-started result and
\* changes nothing; /guess with a text that, trimmed and lower-cased, differs
\* from the lower-cased secret word adds one to current_guesses and changes
\* nothing else.
C13_GuessFrame ==
    [][ByGuess => \A text \in GuessTexts :
          guess(text)
             => /\ word = None
                   => /\ result'.kind = "not_started"
                      /\ ~result'.correct
                      /\ UNCHANGED game
                /\ (word # None /\ strip(lower(text)) # lower(word))
                   => /\ result'.kind = "wrong"
                      /\ ~result'.correct
                      /\ current_guesses' = current_guesses + 1
                      /\ UNCHANGED <<word, hints, hint_index, question_index,
                                     messages, finished, used_words, level,
                                     session_history, current_hints>>]_vars

\* a second incorrect guess in a round that has had more than one clue
C13_Witness ==
    /\ result.op = "guess"
    /\ result.kind = "wrong"
    /\ current_guesses = 2
    /\ question_index > 1
    /\ ~finished

\* C14: between two starts the level rises by at most one and at most one
\* record is appended to the history. (Every round of Spec starts at level 1
\* with an empty history.)
C14_RoundWonAtMostOnce ==
    word # None => (level <= 2 /\ Len(session_history) <= 1)

\* C15: /next on an unfinished round with question_index = 10 sets
\* question_index to 11 and finished to true, returns the end-of-clues
\* signal, appends nothing to the log, and leaves hint_index,
\* current_guesses, level, the history and used_words as they were.
C15_LastAdvanceFrame ==
    [][(ByNext /\ ~finished /\ question_index = 10)
          => /\ question_index' = 11
             /\ finished'
             /\ result'.kind = "no_more"
             /\ result'.finished
             /\ UNCHANGED <<messages, hint_index, current_guesses, level,
                            session_history, used_words, word, hints>>]_vars

\* the clues of a round with two selected hints ran out after two guesses
C15_Witness ==
    /\ word # None
    /\ result.op = "next"
    /\ result.kind = "no_more"
    /\ current_guesses = 2
    /\ hint_index = 2
    /\ Len(messages) = 21

\* C17: hint_index is always between 0 and the number of selected hints and
\* never decreases within a round; in a started round it is
\* min(question_index - 1, number of selected hints) as long as
\* question_index <= 10. The k-th /next of a round that produces a clue asks
\* for the k-th selected hint if there is one, and for another clue
\* otherwise.
C17_HintsConsumedInOrder ==
    /\ [](/\ hint_index \in 0..Len(hints)
          /\ (word # None /\ question_index <= 10)
                => hint_index = Min(question_index - 1, Len(hints)))
    /\ [][/\ ~ByStart => hint_index' >= hint_index
          /\ (ByNext /\ result'.kind = "clue")
                => LET k == question_index
                       asked == messages'[Len(messages') - 1]
                   IN /\ Len(messages') = Len(messages) + 2
                      /\ k <= Len(hints)
                            => asked = HintMessage(word, hints[k])
                      /\ k > Len(hints) => asked = AnotherMessage]_vars

\* all three selected hints have been asked for, out of catalog order, and a
\* further clue was asked for without a hint
C17_Witness ==
    /\ Len(hints) = 3
    /\ hints[1] = 3
    /\ hint_index = 3
    /\ question_index = 5
    /\ messages[Len(messages) - 1] = AnotherMessage
    /\ messages[Len(messages) - 3] = HintMessage(word, hints[3])

\* C18: once a round has been started the secret word is a catalog word and
\* is in used_words, and used_words is a non-empty set of catalog words; a
\* start without the reset flag selects a word that was in used_words only
\* when used_words was the whole catalog.
C18_SecretWordIsUsed ==
    /\ [](word # None
             => /\ word \in Keys
                /\ word \in used_words
                /\ used_words # {}
                /\ used_words \subseteq Keys)
    /\ [][(StartStep(FALSE) /\ word' \in used_words) => used_words = Keys]_vars

\* a start without reset has selected the one word that was still unused
C18_Witness ==
    /\ result.op = "start"
    /\ starts = NumWords
    /\ used_words = Keys
    /\ word = WORDS[1].name

\* C19: in a started, unfinished round question_index is between 1 and 10
\* and /next can be called; each such call adds one to question_index and
\* sets finished exactly when question_index was 10, so 11 - question_index
\* calls of /next end the round. finished becomes true only by a correct
\* guess or by the /next that takes question_index past 10.
C19_AdvancingEndsTheRound ==
    /\ []((word # None /\ ~finished)
             => /\ question_index \in 1..10
                /\ ENABLED next_hint)
    /\ [][/\ (ByNext /\ word # None /\ ~finished)
                => /\ question_index' = question_index + 1
                   /\ finished' <=> question_index = 10
          /\ (~finished /\ finished')
                => \/ ByGuess /\ result'.kind = "correct"
                   \/ ByNext /\ question_index = 10]_vars

\* the round ended by advancing alone, no guess was made
C19_Witness ==
    /\ word # None
    /\ finished
    /\ question_index = 11
    /\ current_guesses = 0
    /\ session_history = <<>>

\* no handler is in the middle of its work
Quiescent == \A c \in Callers : calls[c] = "idle"

\* the log as whole operations leave it: every request to the generator has
\* its reply, one reply per clue
WholeLog ==
    /\ Len(messages) = 2 * Generated + 1
    /\ messages[Len(messages)].role = "assistant"
    /\ Generated = Min(question_index, 10)

\* C11: at most one handler is in the middle of its work and it holds the
\* event loop, so that every step of a caller (the beginning or the end of a
\* handler, a whole /guess, a read of /state) is taken in a state in which no
\* other caller's handler is in flight; whenever no handler is in flight the
\* state is that of a serial execution: before the first start nothing has
\* been logged, afterwards every clue asked for has its reply in the log.
C11_HandlersAreAtomic ==
    /\ [](/\ \A c, d \in Callers :
                c # d => (calls[c] = "idle" \/ calls[d] = "idle")
          /\ \A c \in Callers : calls[c] # "idle" => running = c
          /\ Quiescent
                => /\ running = 0
                   /\ word = None => messages = <<>>
                   /\ word # None => WholeLog)
    /\ [][/\ \A c \in Callers :
                calls'[c] # calls[c]
                   => \A d \in Callers : d # c => calls[d] = "idle"
          /\ calls' = calls => Quiescent]_vars

\* a generator call of one caller is in flight while the other caller is idle
\* and the log has a request without its reply
C11_Witness ==
    /\ calls[1] = "next"
    /\ calls[2] = "idle"
    /\ running = 1
    /\ messages[Len(messages)].role = "user"
    /\ result.op = "guess"

====
